---- MODULE Spec2Model ----
(***************************************************************************)
(* Model of Finance.py: the FinanceManager object (users, current_user,    *)
(* financial_records), the two JSON files it mirrors, and one action per   *)
(* public method.  Python dicts are insertion ordered, so a dict is a      *)
(* sequence of entries with distinct keys; None is the empty tuple and a   *)
(* present optional value v is <<v>>.                                      *)
(***************************************************************************)
EXTENDS Integers, Sequences, FiniteSets, TLC

VARIABLES users, current_user, financial_records, users_file, finance_file, out

vars == <<users, current_user, financial_records, users_file, finance_file, out>>

-----------------------------------------------------------------------------
(* Bounds and input domains *)

MaxRecords == 2

Usernames == {"alice", "bob", "carol"}
Passwords == {"pw", "PW"}
Descriptions == {"rent", "pay"}
Amounts == {30, 100}
Categories == {"home"}
RecordTypes == {"income", "expense", "bonus"}
Dates == {<<2024, 1, 31>>, <<2024, 2, 1>>}
Indices == -1 .. MaxRecords
Periods == {"monthly", "weekly", "yearly"}
\* an amount as typed at the prompt: a sequence of characters
AmountTexts == {<<>>, <<"3", "0">>, <<"x">>}

None == <<>>
Some(v) == <<v>>

-----------------------------------------------------------------------------
(* Python dict, as an insertion-ordered sequence of entries keyed by .username *)

Keys(d) == {d[i].username : i \in 1 .. Len(d)}

KeyIndex(d, k) == CHOOSE i \in 1 .. Len(d) : d[i].username = k

\* d[k]
Lookup(d, k) == d[KeyIndex(d, k)]

\* d[k] = entry : overwrite in place, or insert at the end
SetItem(d, k, entry) ==
    IF k \in Keys(d) THEN [d EXCEPT ![KeyIndex(d, k)] = entry]
                     ELSE Append(d, entry)

\* dict.get(k, []) on financial_records
GetRecords(d, k) == IF k \in Keys(d) THEN Lookup(d, k).records ELSE <<>>

\* faulty variant: lst.pop() instead of del lst[i]
DelAtBug(lst, i) == [j \in 1 .. Len(lst) - 1 |-> lst[j]]

\* del lst[i], with i a valid 0-based index
DelAt(lst, i) == [j \in 1 .. Len(lst) - 1 |-> IF j <= i THEN lst[j] ELSE lst[j + 1]]

-----------------------------------------------------------------------------
(* FinancialRecord and User *)

\* date or datetime.now().strftime('%Y-%m-%d')
FinancialRecord(description, amount, category, record_type, date, now) ==
    [description |-> description,
     amount      |-> amount,
     category    |-> category,
     record_type |-> record_type,
     date        |-> IF date = None THEN now ELSE date[1]]

User(username, password) == [username |-> username, password |-> password]

-----------------------------------------------------------------------------
(* Files.  A file is absent, or holds the list json.dump wrote. *)

NoFile == [exists |-> FALSE, data |-> <<>>]
FileOf(data) == [exists |-> TRUE, data |-> data]

\* os.path.getsize: json.dump writes at least the two characters "[]".  A file that
\* json.load cannot parse (line 103) is never written by the program and is not modelled.
GetSize(file) == IF file.exists THEN 2 + Len(file.data) ELSE 0

RECURSIVE UsersFromList(_, _)
UsersFromList(data, acc) ==
    IF data = <<>> THEN acc
    ELSE UsersFromList(Tail(data),
                       SetItem(acc, Head(data).username,
                               User(Head(data).username, Head(data).password)))

load_users(file) == IF file.exists THEN UsersFromList(file.data, <<>>) ELSE <<>>

save_users(us) == FileOf([i \in 1 .. Len(us) |-> User(us[i].username, us[i].password)])

\* one flattened row of the finance file
FlatRow(username, r) ==
    [username    |-> username,
     description |-> r.description,
     amount      |-> r.amount,
     category    |-> r.category,
     record_type |-> r.record_type,
     date        |-> r.date]

RowsOf(username, records) == [i \in 1 .. Len(records) |-> FlatRow(username, records[i])]

RECURSIVE Flatten(_)
Flatten(fr) ==
    IF fr = <<>> THEN <<>>
    ELSE RowsOf(Head(fr).username, Head(fr).records) \o Flatten(Tail(fr))

save_financial_records(fr) == FileOf(Flatten(fr))

\* faulty variant: the user's list is reset for every row read
RECURSIVE GroupRowsBug(_, _, _)
GroupRowsBug(rows, acc, now) ==
    IF rows = <<>> THEN acc
    ELSE LET row == Head(rows)
             rec == FinancialRecord(row.description, row.amount, row.category,
                                    row.record_type, Some(row.date), now)
         IN GroupRowsBug(Tail(rows),
                         SetItem(acc, row.username,
                                 [username |-> row.username, records |-> <<rec>>]),
                         now)

RECURSIVE GroupRows(_, _, _)
GroupRows(rows, acc, now) ==
    IF rows = <<>> THEN acc
    ELSE LET row == Head(rows)
             rec == FinancialRecord(row.description, row.amount, row.category,
                                    row.record_type, Some(row.date), now)
             old == GetRecords(acc, row.username)
         IN GroupRows(Tail(rows),
                      SetItem(acc, row.username,
                              [username |-> row.username, records |-> Append(old, rec)]),
                      now)

load_financial_records(file, now) ==
    IF file.exists /\ GetSize(file) > 0 THEN GroupRows(file.data, <<>>, now) ELSE <<>>

-----------------------------------------------------------------------------
(* State *)

CurrentName == current_user[1].username

RECURSIVE CountRecords(_)
CountRecords(fr) == IF fr = <<>> THEN 0 ELSE Len(Head(fr).records) + CountRecords(Tail(fr))

Result(call, msg, ret) == [call |-> call, msg |-> msg, ret |-> ret]

\* Every mutating method stores the new record store and rewrites the whole file
Persist(fr) ==
    /\ financial_records' = fr
    /\ finance_file' = save_financial_records(fr)

Init ==
    /\ users_file = NoFile
    /\ finance_file = NoFile
    /\ users = load_users(users_file)
    /\ current_user = None
    /\ financial_records = load_financial_records(finance_file, <<2024, 1, 31>>)
    /\ out = Result("__init__", "", None)

-----------------------------------------------------------------------------
(* User Store and Session *)

\* faulty variant: no check for an existing username
RegisterUserBug(username, password) ==
    /\ users' = SetItem(users, username, User(username, password))
    /\ users_file' = save_users(users')
    /\ out' = Result("register_user", "User registered successfully.", Some(TRUE))
    /\ UNCHANGED <<current_user, financial_records, finance_file>>

RegisterUser(username, password) ==
    IF username \in Keys(users)
    THEN /\ out' = Result("register_user", "Sorry! User already exists.", Some(FALSE))
         /\ UNCHANGED <<users, users_file, current_user, financial_records, finance_file>>
    ELSE /\ users' = SetItem(users, username, User(username, password))
         /\ users_file' = save_users(users')
         /\ out' = Result("register_user", "User registered successfully.", Some(TRUE))
         /\ UNCHANGED <<current_user, financial_records, finance_file>>

\* faulty variant: the password is not compared
CredentialsMatchBug(us, username, password) == username \in Keys(us)

\* the condition of authenticate_user
CredentialsMatch(us, username, password) ==
    username \in Keys(us) /\ Lookup(us, username).password = password

AuthenticateUser(username, password) ==
    IF CredentialsMatch(users, username, password)
    THEN /\ current_user' = Some(Lookup(users, username))
         /\ out' = Result("authenticate_user", "Congrats! Authentication successful.", Some(TRUE))
         /\ UNCHANGED <<users, users_file, financial_records, finance_file>>
    ELSE /\ out' = Result("authenticate_user", "Invalid username or password. Try Again", Some(FALSE))
         /\ UNCHANGED <<users, users_file, current_user, financial_records, finance_file>>

-----------------------------------------------------------------------------
(* Record Store *)

\* faulty variant: insert(0, record) instead of append(record)
add_recordBug(fr, username, record) ==
    SetItem(fr, username,
            [username |-> username,
             records  |-> <<record>> \o GetRecords(fr, username)])

\* lines 146-148: create the user's list if missing, then append
add_record(fr, username, record) ==
    LET withKey == IF username \in Keys(fr) THEN fr
                   ELSE SetItem(fr, username, [username |-> username, records |-> <<>>])
    IN SetItem(withKey, username,
               [username |-> username,
                records  |-> Append(GetRecords(withKey, username), record)])

AddRecord(description, amount, category, record_type, now) ==
    IF current_user = None
    THEN /\ out' = Result("add_record", "Please log in to add records.", None)
         /\ UNCHANGED <<users, users_file, current_user, financial_records, finance_file>>
    ELSE /\ CountRecords(financial_records) < MaxRecords
         /\ Persist(add_record(financial_records, CurrentName,
                               FinancialRecord(description, amount, category,
                                               record_type, None, now)))
         /\ out' = Result("add_record", "Record added successfully!!!.", None)
         /\ UNCHANGED <<users, users_file, current_user>>

\* the guard shared by delete_record and update_record (negated)
IndexValid(fr, cu, record_index) ==
    /\ cu # None
    /\ record_index >= 0
    /\ record_index < Len(GetRecords(fr, cu[1].username))

\* faulty variant: the list of the first user of the store is used, not the current user's
delete_recordBug(fr, username, record_index) ==
    IF record_index < Len(fr[1].records)
    THEN SetItem(fr, fr[1].username,
                 [username |-> fr[1].username,
                  records  |-> DelAt(fr[1].records, record_index)])
    ELSE fr

\* del self.financial_records[username][record_index]
delete_record(fr, username, record_index) ==
    SetItem(fr, username,
            [username |-> username,
             records  |-> DelAt(GetRecords(fr, username), record_index)])

DeleteRecord(record_index) ==
    IF ~IndexValid(financial_records, current_user, record_index)
    THEN /\ out' = Result("delete_record", "Invalid record index. Try Again!", None)
         /\ UNCHANGED <<users, users_file, current_user, financial_records, finance_file>>
    ELSE /\ Persist(delete_record(financial_records, CurrentName, record_index))
         /\ out' = Result("delete_record", "Record deleted successfully!!!", None)
         /\ UNCHANGED <<users, users_file, current_user>>

\* lines 167-174: a field is overwritten when its argument is not None
UpdateFields(record, description, amount, category, record_type) ==
    [description |-> IF description # None THEN description[1] ELSE record.description,
     amount      |-> IF amount # None THEN amount[1] ELSE record.amount,
     category    |-> IF category # None THEN category[1] ELSE record.category,
     record_type |-> IF record_type # None THEN record_type[1] ELSE record.record_type,
     date        |-> record.date]

update_record(fr, username, record_index, description, amount, category, record_type) ==
    LET records == GetRecords(fr, username)
    IN SetItem(fr, username,
               [username |-> username,
                records  |-> [records EXCEPT ![record_index + 1] =
                                 UpdateFields(@, description, amount, category, record_type)]])

\* the method, called with optional arguments
UpdateRecordCall(record_index, description, amount, category, record_type) ==
    IF ~IndexValid(financial_records, current_user, record_index)
    THEN /\ out' = Result("update_record", "Invalid record index.", None)
         /\ UNCHANGED <<users, users_file, current_user, financial_records, finance_file>>
    ELSE /\ Persist(update_record(financial_records, CurrentName, record_index,
                                  description, amount, category, record_type))
         /\ out' = Result("update_record", "Congrats! Record updated successfully.", None)
         /\ UNCHANGED <<users, users_file, current_user>>

\* faulty variant: a blank input is passed on as a value
OrNoneBug(text) == Some(text)

\* Menu branch 5 (lines 315-326): a blank input becomes None, a non-blank amount
\* goes through float(), whose ValueError abandons the update.
OrNone(text) == IF text = "" THEN None ELSE Some(text)

Digits == {"0", "1", "2", "3", "4", "5", "6", "7", "8", "9"}

DigitValue(c) ==
    CASE c = "0" -> 0 [] c = "1" -> 1 [] c = "2" -> 2 [] c = "3" -> 3 [] c = "4" -> 4
      [] c = "5" -> 5 [] c = "6" -> 6 [] c = "7" -> 7 [] c = "8" -> 8 [] c = "9" -> 9

\* an amount is typed as a sequence of characters; the empty sequence is a blank line
IsNumeric(text) == text # <<>> /\ \A i \in 1 .. Len(text) : text[i] \in Digits

RECURSIVE Float(_)
Float(text) ==
    IF text = <<>> THEN 0
    ELSE 10 * Float(SubSeq(text, 1, Len(text) - 1)) + DigitValue(text[Len(text)])

FloatOrNone(text) == IF text # <<>> THEN Some(Float(text)) ELSE None

UpdateRecord(record_index, description, amount, category, record_type) ==
    IF amount # <<>> /\ ~IsNumeric(amount)
    THEN /\ out' = Result("update_record",
                          "Invalid input. Please enter numeric values for amount and valid index.",
                          None)
         /\ UNCHANGED <<users, users_file, current_user, financial_records, finance_file>>
    ELSE UpdateRecordCall(record_index, OrNone(description), FloatOrNone(amount),
                          OrNone(category), OrNone(record_type))

\* enumerate(records): 0-based index with each record
display_records(records) == [i \in 1 .. Len(records) |-> <<i - 1, records[i]>>]

DisplayRecords ==
    /\ out' = IF current_user = None
              THEN Result("display_records", "Please log in to view your records.", None)
              ELSE IF CurrentName \notin Keys(financial_records)
                      \/ GetRecords(financial_records, CurrentName) = <<>>
              THEN Result("display_records", "No records found at this time.", None)
              ELSE Result("display_records", "Here are Your Financial Records:",
                          display_records(GetRecords(financial_records, CurrentName)))
    /\ UNCHANGED <<users, users_file, current_user, financial_records, finance_file>>

-----------------------------------------------------------------------------
(* Report Engine *)

\* faulty variant: the record_type filter is missing
RECURSIVE SumAmountsBug(_, _)
SumAmountsBug(records, record_type) ==
    IF records = <<>> THEN 0
    ELSE SumAmountsBug(SubSeq(records, 1, Len(records) - 1), record_type)
         + records[Len(records)].amount

\* sum(record.amount for record in records if record.record_type == record_type)
RECURSIVE SumAmounts(_, _)
SumAmounts(records, record_type) ==
    IF records = <<>> THEN 0
    ELSE SumAmounts(SubSeq(records, 1, Len(records) - 1), record_type)
         + (IF records[Len(records)].record_type = record_type
            THEN records[Len(records)].amount ELSE 0)

calculate_totals(records) == <<SumAmounts(records, "income"), SumAmounts(records, "expense")>>

calculate_savings(records) == SumAmounts(records, "income") - SumAmounts(records, "expense")

CalculateTotals ==
    /\ out' = IF current_user = None
              THEN Result("calculate_totals",
                          "Please log in to calculate total income and expense.", <<None, None>>)
              ELSE Result("calculate_totals", "",
                          calculate_totals(GetRecords(financial_records, CurrentName)))
    /\ UNCHANGED <<users, users_file, current_user, financial_records, finance_file>>

CalculateSavings ==
    /\ out' = IF current_user = None
              THEN Result("calculate_savings", "Please log in to calculate savings.", None)
              ELSE Result("calculate_savings", "",
                          Some(calculate_savings(GetRecords(financial_records, CurrentName))))
    /\ UNCHANGED <<users, users_file, current_user, financial_records, finance_file>>

IsLeap(y) == y % 4 = 0 /\ (y % 100 # 0 \/ y % 400 = 0)

DaysBeforeMonth(y, m) ==
    <<0, 31, 59, 90, 120, 151, 181, 212, 243, 273, 304, 334>>[m]
    + (IF m > 2 /\ IsLeap(y) THEN 1 ELSE 0)

\* days since 0001-01-01, which is day 1 and a Monday
Ordinal(date) ==
    LET y == date[1] - 1
    IN 365 * y + (y \div 4) - (y \div 100) + (y \div 400)
       + DaysBeforeMonth(date[1], date[2]) + date[3]

\* dt.to_period('M'): the calendar month; dt.to_period('W'): the week Monday..Sunday
ToPeriod(date, freq) ==
    IF freq = "M" THEN <<date[1], date[2]>>
    ELSE LET monday == Ordinal(date) - ((Ordinal(date) - 1) % 7)
         IN <<monday, monday + 6>>

\* df.groupby([period, 'record_type', 'category'])['amount'].sum().reset_index()
GroupReport(records, freq) ==
    LET key(r) == <<ToPeriod(r.date, freq), r.record_type, r.category>>
        keys == {key(records[i]) : i \in 1 .. Len(records)}
        pick(k) == SelectSeq(records, LAMBDA r : key(r) = k)
        RECURSIVE sum(_)
        sum(rs) == IF rs = <<>> THEN 0 ELSE Head(rs).amount + sum(Tail(rs))
    IN {[date |-> k[1], record_type |-> k[2], category |-> k[3], amount |-> sum(pick(k))]
        : k \in keys}

\* faulty variant: every period other than 'weekly' is reported monthly
generate_reportBug(cu, records, period) ==
    IF cu = None
    THEN Result("generate_report", "Please log in to generate reports.", None)
    ELSE IF records = <<>>
    THEN Result("generate_report", "No records available for generating reports.", None)
    ELSE IF period = "weekly"
    THEN Result("generate_report", "", Some(GroupReport(records, "W")))
    ELSE Result("generate_report", "", Some(GroupReport(records, "M")))

generate_report(cu, records, period) ==
    IF cu = None
    THEN Result("generate_report", "Please log in to generate reports.", None)
    ELSE IF records = <<>>
    THEN Result("generate_report", "No records available for generating reports.", None)
    ELSE IF period = "monthly"
    THEN Result("generate_report", "", Some(GroupReport(records, "M")))
    ELSE IF period = "weekly"
    THEN Result("generate_report", "", Some(GroupReport(records, "W")))
    ELSE Result("generate_report", "Invalid period specified.", None)

GenerateReport(period) ==
    /\ out' = generate_report(current_user,
                              IF current_user = None THEN <<>>
                              ELSE GetRecords(financial_records, CurrentName),
                              period)
    /\ UNCHANGED <<users, users_file, current_user, financial_records, finance_file>>

-----------------------------------------------------------------------------
(* Exit (menu choice 10) followed by a new run: FinanceManager.__init__ *)

Restart(now) ==
    /\ users' = load_users(users_file)
    /\ current_user' = None
    /\ financial_records' = load_financial_records(finance_file, now)
    /\ out' = Result("__init__", "", None)
    /\ UNCHANGED <<users_file, finance_file>>

-----------------------------------------------------------------------------

(* Specifications.  All start from the first run (no files on disk) and differ *)
(* in the inputs they draw.                                                    *)

\* what is typed at the four prompts of an update: <<description, amount, category, type>>
UpdateForms ==
    { <<"", <<>>, "", "">>,
      <<"pay", <<>>, "", "">>,
      <<"", <<"3", "0">>, "", "">>,
      <<"", <<>>, "", "bonus">>,
      <<"pay", <<"3", "0">>, "home", "bonus">>,
      <<"pay", <<"x">>, "", "bonus">> }

\* Record Store of one user: add, delete, update, restart
Next ==
    \/ \E u \in {"alice"}, p \in {"pw"} : RegisterUser(u, p)
    \/ \E u \in {"alice"}, p \in {"pw"} : AuthenticateUser(u, p)
    \/ \E d \in Descriptions, a \in Amounts, c \in Categories, t \in {"income", "bonus"},
          now \in Dates : AddRecord(d, a, c, t, now)
    \/ \E i \in Indices : DeleteRecord(i)
    \/ \E i \in Indices, f \in {<<"", <<"3", "0">>, "", "">>, <<"pay", <<>>, "", "bonus">>} :
          UpdateRecord(i, f[1], f[2], f[3], f[4])
    \/ \E now \in Dates : Restart(now)

Spec == Init /\ [][Next]_vars

\* Updates of the records of one user
NextUpdate ==
    \/ \E u \in {"alice"}, p \in {"pw"} : RegisterUser(u, p)
    \/ \E u \in {"alice"}, p \in {"pw"} : AuthenticateUser(u, p)
    \/ \E now \in Dates : AddRecord("rent", 100, "home", "income", now)
    \/ \E i \in Indices, f \in UpdateForms : UpdateRecord(i, f[1], f[2], f[3], f[4])
    \/ \E now \in Dates : Restart(now)

SpecUpdate == Init /\ [][NextUpdate]_vars

\* User Store and Session
NextUsers ==
    \/ \E u \in Usernames, p \in Passwords : RegisterUser(u, p)
    \/ \E u \in Usernames, p \in Passwords : AuthenticateUser(u, p)
    \/ \E now \in Dates : Restart(now)

SpecUsers == Init /\ [][NextUsers]_vars

\* Record Store shared by two users
NextMulti ==
    \/ \E u \in {"alice", "bob"}, p \in {"pw"} : RegisterUser(u, p)
    \/ \E u \in {"alice", "bob"}, p \in {"pw"} : AuthenticateUser(u, p)
    \/ \E a \in Amounts, t \in {"income", "expense"} :
          AddRecord("rent", a, "home", t, <<2024, 1, 31>>)
    \/ \E i \in Indices : DeleteRecord(i)
    \/ \E i \in Indices, a \in {<<>>, <<"3", "0">>}, t \in {"", "expense"} :
          UpdateRecord(i, "", a, "", t)
    \/ \E now \in Dates : Restart(now)

SpecMulti == Init /\ [][NextMulti]_vars

\* Report Engine over the records of one user
NextReports ==
    \/ \E u \in {"alice"}, p \in {"pw"} : RegisterUser(u, p)
    \/ \E u \in {"alice"}, p \in {"pw"} : AuthenticateUser(u, p)
    \/ \E a \in Amounts, c \in Categories, t \in RecordTypes, now \in Dates :
          AddRecord("rent", a, c, t, now)
    \/ \E i \in Indices : DeleteRecord(i)
    \/ DisplayRecords
    \/ CalculateTotals
    \/ CalculateSavings
    \/ \E period \in Periods : GenerateReport(period)

SpecReports == Init /\ [][NextReports]_vars

-----------------------------------------------------------------------------
(* Properties *)

\* the current user's record sequence before and after a step
OldRecords == IF current_user = None THEN <<>> ELSE GetRecords(financial_records, CurrentName)
NewRecords == IF current_user = None THEN <<>> ELSE GetRecords(financial_records', CurrentName)

StoreUnchanged == financial_records' = financial_records /\ finance_file' = finance_file

\* C1: delete_record(i) with a logged-in user and 0 <= i < n removes exactly the
\* record at position i (n-1 records remain, positions below i are unchanged, each
\* record formerly at j > i is at j-1); with i out of range or nobody logged in the
\* whole record store is unchanged.
C1_DeleteRemovesIndex ==
    [][out'.call = "delete_record" => \A i \in Indices :
         DeleteRecord(i) =>
            IF current_user # None /\ 0 <= i /\ i < Len(OldRecords)
            THEN /\ Len(NewRecords) = Len(OldRecords) - 1
                 /\ \A j \in 0 .. Len(OldRecords) - 1 :
                       /\ j < i => NewRecords[j + 1] = OldRecords[j + 1]
                       /\ j > i => NewRecords[j] = OldRecords[j + 1]
                 /\ out'.msg = "Record deleted successfully!!!"
            ELSE /\ StoreUnchanged
                 /\ out'.msg = "Invalid record index. Try Again!"]_vars

\* a delete has succeeded and left a record behind
C1_Witness ==
    /\ out.msg = "Record deleted successfully!!!"
    /\ current_user # None
    /\ Len(GetRecords(financial_records, CurrentName)) = MaxRecords - 1

\* the value float() gives for the amounts typed in the model
TypedAmount(text) == IF text = <<"3", "0">> THEN 30 ELSE -1

\* C2: update_record with a valid index overwrites only the supplied (non-blank)
\* fields; every field left blank, and the date always, keeps its value, and the
\* number and order of the records is unchanged.  With an out-of-bounds index or
\* nobody logged in the store is unchanged.
C2_UpdateOverwritesSupplied ==
    [][out'.call = "update_record" => \A i \in Indices, f \in UpdateForms :
         LET d == f[1]  a == f[2]  c == f[3]  t == f[4] IN
         UpdateRecord(i, d, a, c, t) =>
            IF current_user # None /\ 0 <= i /\ i < Len(OldRecords)
            THEN /\ Len(NewRecords) = Len(OldRecords)
                 /\ \A j \in 1 .. Len(OldRecords) : j # i + 1 => NewRecords[j] = OldRecords[j]
                 /\ NewRecords[i + 1].date = OldRecords[i + 1].date
                 /\ d = "" => NewRecords[i + 1].description = OldRecords[i + 1].description
                 /\ a = <<>> => NewRecords[i + 1].amount = OldRecords[i + 1].amount
                 /\ c = "" => NewRecords[i + 1].category = OldRecords[i + 1].category
                 /\ t = "" => NewRecords[i + 1].record_type = OldRecords[i + 1].record_type
                 /\ out'.msg = "Congrats! Record updated successfully." =>
                       /\ d # "" => NewRecords[i + 1].description = d
                       /\ a # <<>> => NewRecords[i + 1].amount = TypedAmount(a)
                       /\ c # "" => NewRecords[i + 1].category = c
                       /\ t # "" => NewRecords[i + 1].record_type = t
                 /\ a \in {<<>>, <<"3", "0">>} => out'.msg = "Congrats! Record updated successfully."
            ELSE StoreUnchanged]_vars

\* an update has changed only the amount of the second of two records
C2_Witness ==
    /\ out.msg = "Congrats! Record updated successfully."
    /\ current_user # None
    /\ LET rs == GetRecords(financial_records, CurrentName)
       IN /\ Len(rs) = 2
          /\ rs[1] = [description |-> "rent", amount |-> 100, category |-> "home",
                      record_type |-> "income", date |-> <<2024, 1, 31>>]
          /\ rs[2] = [description |-> "rent", amount |-> 30, category |-> "home",
                      record_type |-> "income", date |-> <<2024, 2, 1>>]

\* C6: every record of the Record Store has record_type 'income' or 'expense'
C6_RecordTypeValid ==
    \A e \in 1 .. Len(financial_records) :
       \A j \in 1 .. Len(financial_records[e].records) :
          financial_records[e].records[j].record_type \in {"income", "expense"}

\* C7: each successful add_record appends the new record at the end (at the index
\* equal to the previous count) and changes no existing record or position, so N
\* adds from an empty sequence give N records in call order.
C7_AddAppends ==
    [][out'.call = "add_record" =>
       \A d \in Descriptions, a \in Amounts, c \in Categories, t \in RecordTypes, now \in Dates :
         (AddRecord(d, a, c, t, now) /\ current_user # None) =>
            /\ Len(NewRecords) = Len(OldRecords) + 1
            /\ \A j \in 1 .. Len(OldRecords) : NewRecords[j] = OldRecords[j]
            /\ NewRecords[Len(OldRecords) + 1] =
                  [description |-> d, amount |-> a, category |-> c, record_type |-> t,
                   date |-> now]
            /\ display_records(NewRecords)[Len(NewRecords)][1] = Len(OldRecords)]_vars

\* MaxRecords adds have filled a sequence with distinct records
C7_Witness ==
    /\ out.msg = "Record added successfully!!!."
    /\ current_user # None
    /\ LET rs == GetRecords(financial_records, CurrentName)
       IN Len(rs) = MaxRecords /\ rs[1] # rs[MaxRecords]

\* Python's == on two dicts of lists: the same keys, and equal lists under each key
DictEq(d1, d2) ==
    /\ Keys(d1) = Keys(d2)
    /\ \A k \in Keys(d1) : Lookup(d1, k).records = Lookup(d2, k).records

\* save_financial_records followed by load_financial_records
RoundTrip(fr, now) == load_financial_records(save_financial_records(fr), now)

\* the entries of the store whose list is not empty
NonEmptyEntries(fr) == SelectSeq(fr, LAMBDA e : e.records # <<>>)

\* C3 as stated: saving the record store and loading it back gives a mapping equal
\* to the one saved (same user keys, same records in the same order per user).
C3_RoundTripEqual ==
    \A now \in Dates : DictEq(RoundTrip(financial_records, now), financial_records)

\* C3 amended: saving and loading back gives the mapping restricted to the users
\* that have at least one record, with the same records in the same order; a user
\* whose list is empty is not among the keys loaded.
C3_RoundTripNonEmpty ==
    \A now \in Dates :
       /\ DictEq(RoundTrip(financial_records, now), NonEmptyEntries(financial_records))
       /\ \A u \in Usernames :
             GetRecords(RoundTrip(financial_records, now), u) = GetRecords(financial_records, u)

\* one user has an empty list and another has two different records
C3_Witness ==
    /\ \E e \in 1 .. Len(financial_records) : financial_records[e].records = <<>>
    /\ \E e \in 1 .. Len(financial_records) :
          /\ Len(financial_records[e].records) = MaxRecords
          /\ financial_records[e].records[1] # financial_records[e].records[MaxRecords]

\* C10: every add_record, delete_record and update_record step leaves unchanged the
\* record sequence of every user other than the current user, and of all users
\* when nobody is logged in.
C10_UserIsolation ==
    [][out'.call \in {"add_record", "delete_record", "update_record"} =>
         \A u \in Usernames :
            (current_user = None \/ u # CurrentName) =>
               /\ GetRecords(financial_records', u) = GetRecords(financial_records, u)
               /\ (u \in Keys(financial_records')) = (u \in Keys(financial_records))]_vars

\* bob has just deleted or updated one of his records while alice holds records
C10_Witness ==
    /\ out.msg \in {"Record deleted successfully!!!", "Congrats! Record updated successfully."}
    /\ current_user # None
    /\ CurrentName = "bob"
    /\ GetRecords(financial_records, "alice") # <<>>
    /\ financial_records[1].username = "alice"

\* C4: register_user with a username already present returns False and leaves the
\* User Store unchanged; with a new username it returns True and adds exactly that
\* user.  Hence usernames stay unique.
C4_RegisterOnce ==
    /\ [](Cardinality(Keys(users)) = Len(users))
    /\ [][out'.call = "register_user" => \A u \in Usernames, p \in Passwords :
            RegisterUser(u, p) =>
               IF \E i \in 1 .. Len(users) : users[i].username = u
               THEN /\ out'.ret = Some(FALSE)
                    /\ users' = users
                    /\ users_file' = users_file
               ELSE /\ out'.ret = Some(TRUE)
                    /\ Keys(users') = Keys(users) \cup {u}
                    /\ Len(users') = Len(users) + 1
                    /\ \A k \in Keys(users) : Lookup(users', k) = Lookup(users, k)
                    /\ Lookup(users', u).password = p]_vars

\* a registration has been refused while several users are registered
C4_Witness ==
    /\ out.msg = "Sorry! User already exists."
    /\ Len(users) >= 2

\* C5: authenticate_user returns True exactly when the username is registered with
\* the supplied credential; the current user is set to that user on True and the
\* session is left as it was on False.
C5_AuthenticateExact ==
    [][out'.call = "authenticate_user" => \A u \in Usernames, p \in Passwords :
         AuthenticateUser(u, p) =>
            LET ok == \E i \in 1 .. Len(users) :
                         users[i].username = u /\ users[i].password = p
            IN /\ out'.ret = Some(ok)
               /\ IF ok THEN current_user' = Some([username |-> u, password |-> p])
                        ELSE current_user' = current_user]_vars

\* a login has failed while a user was logged in, who stays logged in
C5_Witness ==
    /\ out.msg = "Invalid username or password. Try Again"
    /\ current_user # None

\* C8 as stated: for a logged-in user, generate_report with a period other than
\* 'monthly' or 'weekly' gives the "invalid period" signal and no report, whatever
\* the user's records, also when there are none.
C8_InvalidPeriodSignal ==
    [][out'.call = "generate_report" => \A period \in Periods \ {"monthly", "weekly"} :
         (GenerateReport(period) /\ current_user # None) =>
            /\ out'.ret = None
            /\ out'.msg = "Invalid period specified."]_vars

\* C8 amended: such a call never produces a report; it gives the "invalid period"
\* signal when the user has at least one record, and the "no records" signal when
\* the user has none.
C8_InvalidPeriodNoReport ==
    [][out'.call = "generate_report" => \A period \in Periods \ {"monthly", "weekly"} :
         (GenerateReport(period) /\ current_user # None) =>
            /\ out'.ret = None
            /\ out'.msg = IF OldRecords = <<>>
                          THEN "No records available for generating reports."
                          ELSE "Invalid period specified."]_vars

\* the "invalid period" signal has been given to a user who holds records
C8_Witness ==
    /\ out.msg = "Invalid period specified."
    /\ current_user # None
    /\ GetRecords(financial_records, CurrentName) # <<>>

\* the amounts of the records of one type, added up over the set of their positions
TotalOfType(records, record_type) ==
    LET RECURSIVE total(_)
        total(S) == IF S = {} THEN 0
                    ELSE LET i == CHOOSE i \in S : TRUE
                         IN records[i].amount + total(S \ {i})
    IN total({i \in 1 .. Len(records) : records[i].record_type = record_type})

\* C9: for a logged-in user calculate_totals returns (sum of the income amounts, sum
\* of the expense amounts), (0, 0) when there are no records, and calculate_savings
\* returns the first minus the second component of calculate_totals.
C9_TotalsAndSavings ==
    current_user # None =>
       LET rs == GetRecords(financial_records, CurrentName)
       IN /\ out.call = "calculate_totals" =>
                /\ out.ret = <<TotalOfType(rs, "income"), TotalOfType(rs, "expense")>>
                /\ rs = <<>> => out.ret = <<0, 0>>
          /\ out.call = "calculate_savings" =>
                /\ out.ret = Some(calculate_totals(rs)[1] - calculate_totals(rs)[2])
                /\ out.ret = Some(TotalOfType(rs, "income") - TotalOfType(rs, "expense"))

\* savings of 70 reported for an income of 100 and an expense of 30
C9_Witness ==
    /\ out.call = "calculate_savings"
    /\ current_user # None
    /\ out.ret = Some(70)
    /\ Len(GetRecords(financial_records, CurrentName)) = 2

====
